---- MODULE Spec2Model ----
(***************************************************************************)
(* The S-expression reader of src/main.rs as a state machine.              *)
(*                                                                         *)
(* State: the SExpParser struct (`self`: loc, the underlying iterator's    *)
(* position, the one-character lookahead next_char), the call stack of     *)
(* the recursive-descent functions, and the value returned by the last     *)
(* completed call.  One action per function step between two calls.        *)
(*                                                                         *)
(* A character is a one-character string, a Rust String a sequence of      *)
(* characters, Option<char>::None the value None.                          *)
(***************************************************************************)
EXTENDS Integers, Sequences, FiniteSets, TLC

VARIABLES input, self, stack, ret

vars == <<input, self, stack, ret>>

-----------------------------------------------------------------------------
(* Bounds of the model.                                                    *)

\* longest input over the mixed alphabet and over the three bracket kinds
MaxLen == 3
\* longest input over the bracket alphabet
MaxListLen == 5
\* longest input over the quoted-string alphabet
MaxStrLen == 4

None == "None"

SeqsUpTo(S, n) == UNION {[1..k -> S] : k \in 0..n}

AllChars == {"(", ")", "]", " ", "\n", "\"", "a", "-", "1"}
BracketChars == {"(", ")", "[", "]", "{", "}"}
ListChars == {"(", ")", "]", "a"}
StrChars == {"\"", "\\", "n", "t", "q"}

\* the inputs the specification quotes as examples, and the third escape
Examples ==
  { <<"(", "a", "\n", " ", "b", ")">>,
    <<"(", "(", "a", ")", " ", "b", ")">>,
    <<"\"", "a", "\\", "n", "b", "\"">>,
    <<"\"", "\\", "r", "\"">>,
    <<"f", "o", "o", ")">> }

Inputs ==
  SeqsUpTo(AllChars, MaxLen) \cup SeqsUpTo(BracketChars, MaxLen)
    \cup SeqsUpTo(ListChars, MaxListLen) \cup SeqsUpTo(StrChars, MaxStrLen)
    \cup Examples

\* deepest call stack the reader builds on an input of the model:
\* at most three frames per character, plus the frames of the last item
MaxDepth == 3 * (MaxLen + MaxListLen + MaxStrLen) + 8

-----------------------------------------------------------------------------
(* enum SExp, enum ReadError, Result                                       *)

Nil == <<"Nil">>
Cons(h, t) == <<"Cons", h, t>>
Symbol(s) == <<"Symbol", s>>
String(s) == <<"String", s>>

Ok(v) == <<"Ok", v>>
Err(e) == <<"Err", e>>
IsOk(r) == r[1] = "Ok"
IsErr(r) == r[1] = "Err"
Some(c) == <<"Some", c>>
NoValue == <<"None">>
Unit == <<"Unit">>

FileLocation(l, c) == [line |-> l, col |-> c]

error_eof(p) == <<"EarlyEOF", p.loc, <<"Unexpected End of File">>>>

error_wrong_char(p, c, expected) ==
  <<"WrongChar", p.loc,
    <<"Unexpect character '", c, "' expected one of '", expected, "'">>>>

error_paren_mismatch(p, c1, c2) ==
  <<"ParenMismatch", p.loc,
    <<"List delimiters don't match:  '", c1, "' and '", c2, "'">>>>

error_not_implemented == <<"NotImplemented">>

-----------------------------------------------------------------------------
(* trait CharExt and the char methods of the standard library              *)

is_whitespace(c) == c \in {" ", "\n", "\t", "\r"}

is_digit(c) == c \in {"0", "1", "2", "3", "4", "5", "6", "7", "8", "9"}

is_open_paren(c) == c = "(" \/ c = "[" \/ c = "{"

is_close_paren(c) == c = ")" \/ c = "]" \/ c = "}"

\* is_matching_paren that accepts any close bracket for an open bracket
is_matching_paren_any(c, other) ==
  (c = "(" \/ c = "[" \/ c = "{") /\ (other = ")" \/ other = "]" \/ other = "}")

is_matching_paren(c, other) ==
  CASE c = "(" -> other = ")"
    [] c = "[" -> other = "]"
    [] c = "{" -> other = "}"
    [] OTHER -> FALSE

\* is_delimiter that forgets the double quote
is_delimiter_no_quote(c) ==
  is_whitespace(c) \/ is_open_paren(c) \/ is_close_paren(c)

is_delimiter(c) ==
  is_whitespace(c) \/ is_open_paren(c) \/ is_close_paren(c) \/ c = "\""

-----------------------------------------------------------------------------
(* The lookahead stream: Peek::peek and Iterator::next                     *)

peek(p) == p.next_char

\* self.iter.next() on the characters of the input
iter_next(it) ==
  IF it <= Len(input) THEN [c |-> input[it], iter |-> it + 1]
  ELSE [c |-> None, iter |-> it]

\* loc_after that keeps the column over a newline
loc_after_no_reset(c, loc) ==
  IF c = None THEN loc
  ELSE IF c = "\n" THEN FileLocation(loc.line + 1, loc.col)
  ELSE FileLocation(loc.line, loc.col + 1)

\* the position update of next(), for the character c that was buffered
loc_after(c, loc) ==
  IF c = None THEN loc
  ELSE IF c = "\n" THEN FileLocation(loc.line + 1, 0)
  ELSE FileLocation(loc.line, loc.col + 1)

\* the parser after next(); next() returns p.next_char
next(p) ==
  [loc |-> loc_after(p.next_char, p.loc),
   iter |-> iter_next(p.iter).iter,
   next_char |-> iter_next(p.iter).c]

advance(p) == next(p)

\* number of characters consumed so far
consumed(p) == p.iter - 1 - (IF p.next_char = None THEN 0 ELSE 1)

-----------------------------------------------------------------------------
(* The call stack                                                          *)

Frame(fn, p) ==
  [fn |-> fn, pc |-> "start", start |-> consumed(p),
   c1 |-> None, head |-> Nil, acc |-> <<>>]

NoRet == [fn |-> "none", res |-> NoValue, start |-> 0]

Idle == stack = <<>>
Top == stack[Len(stack)]
At(fn, pc) == ~Idle /\ Top.fn = fn /\ Top.pc = pc

\* the running function returns res to its caller
Return(res) ==
  /\ stack' = SubSeq(stack, 1, Len(stack) - 1)
  /\ ret' = [fn |-> Top.fn, res |-> res, start |-> Top.start]

\* the running function, changed to frame f, calls fn on parser p
Call(f, fn, p) ==
  /\ Len(stack) < MaxDepth
  /\ stack' = Append([stack EXCEPT ![Len(stack)] = f], Frame(fn, p))
  /\ ret' = NoRet

\* the running function goes on as frame f
Goto(f) ==
  /\ stack' = [stack EXCEPT ![Len(stack)] = f]
  /\ ret' = NoRet

-----------------------------------------------------------------------------
(* Construction: the lookahead slot is primed with one pull                *)

Init ==
  /\ input \in Inputs
  /\ self = [loc |-> FileLocation(0, 0),
             iter |-> iter_next(1).iter,
             next_char |-> iter_next(1).c]
  /\ stack = <<>>
  /\ ret = NoRet

-----------------------------------------------------------------------------
(* The host's calls on an idle parser                                      *)

CallPeek ==
  /\ Idle
  /\ ret' = [fn |-> "peek", start |-> consumed(self),
             res |-> IF peek(self) = None THEN NoValue ELSE Some(peek(self))]
  /\ UNCHANGED <<input, self, stack>>

CallNext ==
  /\ Idle
  /\ self' = next(self)
  /\ ret' = [fn |-> "next", start |-> consumed(self),
             res |-> IF self.next_char = None THEN NoValue ELSE Some(self.next_char)]
  /\ UNCHANGED <<input, stack>>

CallReadSexp ==
  /\ Idle
  /\ stack' = <<Frame("read_sexp", self)>>
  /\ ret' = NoRet
  /\ UNCHANGED <<input, self>>

-----------------------------------------------------------------------------
(* fn eat_white_space: one iteration of the loop                           *)

EatWhiteSpace ==
  /\ At("eat_white_space", "start")
  /\ LET c == peek(self) IN
       IF c # None /\ is_whitespace(c)
       THEN /\ self' = advance(self)
            /\ UNCHANGED <<stack, ret>>
       ELSE /\ Return(Unit)
            /\ UNCHANGED self
  /\ UNCHANGED input

(* fn read_sexp                                                            *)

ReadSexp ==
  /\ At("read_sexp", "start")
  /\ LET c == peek(self)
         f == [Top EXCEPT !.pc = "ret"]
     IN  IF c = None THEN Return(Err(error_eof(self)))
         ELSE IF is_open_paren(c) THEN Call(f, "read_list", self)
         ELSE IF c = "-" \/ is_digit(c) THEN Call(f, "read_number", self)
         ELSE IF c = "\"" THEN Call(f, "read_string", self)
         ELSE IF ~is_whitespace(c) THEN Call(f, "read_symbol", self)
         ELSE Return(Err(error_wrong_char(self, c, "Any")))
  /\ UNCHANGED <<input, self>>

\* the production's result is read_sexp's result
ReadSexpRet ==
  /\ At("read_sexp", "ret")
  /\ Return(ret.res)
  /\ UNCHANGED <<input, self>>

(* fn read_list                                                            *)

ReadList ==
  /\ At("read_list", "start")
  /\ LET c1 == peek(self) IN
       IF c1 = None
       THEN Return(Err(error_eof(self))) /\ UNCHANGED self
       ELSE IF is_open_paren(c1)
       THEN /\ self' = advance(self)
            /\ Call([Top EXCEPT !.pc = "items", !.c1 = c1], "read_list_items", self')
       ELSE Return(Err(error_wrong_char(self, c1, "({["))) /\ UNCHANGED self
  /\ UNCHANGED input

\* read_list that also consumes the close bracket it has matched
ReadListClose_consuming ==
  /\ At("read_list", "items")
  /\ IF IsErr(ret.res) THEN Return(ret.res) /\ UNCHANGED self
     ELSE LET items == ret.res[2]
              c2 == peek(self)
          IN  IF c2 = None THEN Return(Err(error_eof(self))) /\ UNCHANGED self
              ELSE IF is_matching_paren(Top.c1, c2)
              THEN self' = advance(self) /\ Return(Ok(items))
              ELSE Return(Err(error_paren_mismatch(self, Top.c1, c2))) /\ UNCHANGED self
  /\ UNCHANGED input

ReadListClose ==
  /\ At("read_list", "items")
  /\ IF IsErr(ret.res) THEN Return(ret.res)
     ELSE LET items == ret.res[2]
              c2 == peek(self)
          IN  IF c2 = None THEN Return(Err(error_eof(self)))
              ELSE IF is_matching_paren(Top.c1, c2) THEN Return(Ok(items))
              ELSE Return(Err(error_paren_mismatch(self, Top.c1, c2)))
  /\ UNCHANGED <<input, self>>

(* fn read_list_items                                                      *)

ReadListItems ==
  /\ At("read_list_items", "start")
  /\ Call([Top EXCEPT !.pc = "peek"], "eat_white_space", self)
  /\ UNCHANGED <<input, self>>

\* read_list_items that stops at an open bracket instead of a close bracket
ReadListItemsPeek_open ==
  /\ At("read_list_items", "peek")
  /\ LET c == peek(self) IN
       IF c = None THEN Return(Err(error_eof(self)))
       ELSE IF is_open_paren(c) THEN Return(Ok(Nil))
       ELSE Call([Top EXCEPT !.pc = "head"], "read_sexp", self)
  /\ UNCHANGED <<input, self>>

ReadListItemsPeek ==
  /\ At("read_list_items", "peek")
  /\ LET c == peek(self) IN
       IF c = None THEN Return(Err(error_eof(self)))
       ELSE IF is_close_paren(c) THEN Return(Ok(Nil))
       ELSE Call([Top EXCEPT !.pc = "head"], "read_sexp", self)
  /\ UNCHANGED <<input, self>>

ReadListItemsHead ==
  /\ At("read_list_items", "head")
  /\ IF IsErr(ret.res) THEN Return(ret.res)
     ELSE Call([Top EXCEPT !.pc = "tail", !.head = ret.res[2]],
               "read_list_items", self)
  /\ UNCHANGED <<input, self>>

ReadListItemsTail ==
  /\ At("read_list_items", "tail")
  /\ IF IsErr(ret.res) THEN Return(ret.res)
     ELSE Return(Ok(Cons(Top.head, ret.res[2])))
  /\ UNCHANGED <<input, self>>

(* fn read_symbol: one iteration of the loop                               *)

ReadSymbol ==
  /\ At("read_symbol", "start")
  /\ LET c == peek(self) IN
       IF c # None /\ ~is_delimiter(c)
       THEN /\ self' = advance(self)
            /\ Goto([Top EXCEPT !.acc = Append(@, c)])
       ELSE /\ Return(Ok(Symbol(Top.acc)))
            /\ UNCHANGED self
  /\ UNCHANGED input

(* fn read_escaped_string_char                                             *)

\* unescape without the tab escape
unescape_no_tab(c) ==
  CASE c = "n" -> "\n"
    [] c = "r" -> "\r"
    [] OTHER -> c

unescape(c) ==
  CASE c = "n" -> "\n"
    [] c = "t" -> "\t"
    [] c = "r" -> "\r"
    [] OTHER -> c

ReadEscapedStringChar ==
  /\ At("read_escaped_string_char", "start")
  /\ LET c == self.next_char
         p1 == next(self)
         c2 == p1.next_char
         p2 == next(p1)
     IN  IF c = None
         THEN self' = p1 /\ Return(Err(error_eof(p1)))
         ELSE IF c = "\\"
         THEN /\ self' = p2
              /\ IF c2 = None THEN Return(Err(error_eof(p2)))
                 ELSE Return(Ok(unescape(c2)))
         ELSE self' = p1 /\ Return(Ok(c))
  /\ UNCHANGED input

(* fn read_string                                                          *)

ReadString ==
  /\ At("read_string", "start")
  /\ LET c == peek(self) IN
       IF c = None
       THEN Return(Err(error_eof(self))) /\ UNCHANGED self
       ELSE IF c # "\""
       THEN Return(Err(error_wrong_char(self, c, "\""))) /\ UNCHANGED self
       ELSE self' = advance(self) /\ Goto([Top EXCEPT !.pc = "loop"])
  /\ UNCHANGED input

ReadStringLoop ==
  /\ At("read_string", "loop")
  /\ LET c == peek(self) IN
       IF c = None
       THEN Return(Err(error_eof(self))) /\ UNCHANGED self
       ELSE IF c = "\""
       THEN self' = advance(self) /\ Return(Ok(String(Top.acc)))
       ELSE /\ Call([Top EXCEPT !.pc = "char"], "read_escaped_string_char", self)
            /\ UNCHANGED self
  /\ UNCHANGED input

ReadStringChar ==
  /\ At("read_string", "char")
  /\ IF IsErr(ret.res) THEN Return(ret.res)
     ELSE Goto([Top EXCEPT !.pc = "loop", !.acc = Append(@, ret.res[2])])
  /\ UNCHANGED <<input, self>>

(* fn read_number                                                          *)

\* read_number as a stub that succeeds
ReadNumber_stub ==
  /\ At("read_number", "start")
  /\ Return(Ok(<<"Integer", 0>>))
  /\ UNCHANGED <<input, self>>

ReadNumber ==
  /\ At("read_number", "start")
  /\ Return(Err(error_not_implemented))
  /\ UNCHANGED <<input, self>>

-----------------------------------------------------------------------------

\* the steps of a running read_sexp call
Step ==
  \/ EatWhiteSpace
  \/ ReadSexp
  \/ ReadSexpRet
  \/ ReadList
  \/ ReadListClose
  \/ ReadListItems
  \/ ReadListItemsPeek
  \/ ReadListItemsHead
  \/ ReadListItemsTail
  \/ ReadSymbol
  \/ ReadEscapedStringChar
  \/ ReadString
  \/ ReadStringLoop
  \/ ReadStringChar
  \/ ReadNumber

Next ==
  \/ CallPeek
  \/ CallNext
  \/ CallReadSexp
  \/ Step

Spec == Init /\ [][Next]_vars

\* a call that was made runs to its end: the reader is synchronous
FairSpec == Spec /\ WF_vars(Step)

TypeOK ==
  /\ self.iter \in 1..(Len(input) + 1)
  /\ Len(stack) < MaxDepth

-----------------------------------------------------------------------------
(* The grammar the claims speak of, read off the input alone: a list is    *)
(* an open bracket, items separated by optional whitespace, and the close  *)
(* bracket of the same kind; the list ends after its close bracket.        *)

Whitespace == {" ", "\n", "\t", "\r"}
OpenBrackets == {"(", "[", "{"}
CloseBrackets == {")", "]", "}"}
Delimiters == Whitespace \cup OpenBrackets \cup CloseBrackets \cup {"\""}
NumberStart == {"-", "0", "1", "2", "3", "4", "5", "6", "7", "8", "9"}

Closer(c) == CASE c = "(" -> ")" [] c = "[" -> "]" [] c = "{" -> "}" [] OTHER -> None

CharAt(s, i) == IF i \in 1..Len(s) THEN s[i] ELSE None

\* the position after the first k characters of s
LocAt(s, k) ==
  LET nl == {i \in 1..k : s[i] = "\n"}
      last == IF nl = {} THEN 0 ELSE CHOOSE i \in nl : \A j \in nl : j <= i
  IN  [line |-> Cardinality(nl), col |-> k - last]

Decoded(c) == IF c = "n" THEN "\n" ELSE IF c = "t" THEN "\t" ELSE IF c = "r" THEN "\r" ELSE c

RefOk(tree, nxt) == [k |-> "ok", tree |-> tree, next |-> nxt]
RefEof == [k |-> "eof", tree |-> Nil, next |-> 0]
RefBad == [k |-> "bad", tree |-> Nil, next |-> 0]

\* the content of a quoted string whose opening quote precedes s[i]
RECURSIVE RefStringBody(_, _, _)
RefStringBody(s, i, acc) ==
  IF i > Len(s) THEN RefEof
  ELSE IF s[i] = "\"" THEN RefOk(String(acc), i + 1)
  ELSE IF s[i] = "\\"
  THEN IF i + 1 > Len(s) THEN RefEof
       ELSE RefStringBody(s, i + 2, Append(acc, Decoded(s[i + 1])))
  ELSE RefStringBody(s, i + 1, Append(acc, s[i]))

\* the longest run of non-delimiters from s[i] on
RECURSIVE RefToken(_, _)
RefToken(s, i) ==
  IF i > Len(s) \/ s[i] \in Delimiters THEN <<>>
  ELSE <<s[i]>> \o RefToken(s, i + 1)

RECURSIVE RefSkip(_, _)
RefSkip(s, i) == IF i <= Len(s) /\ s[i] \in Whitespace THEN RefSkip(s, i + 1) ELSE i

RECURSIVE RefSexp(_, _), RefItems(_, _)
RefSexp(s, i) ==
  IF i > Len(s) THEN RefEof
  ELSE IF s[i] \in OpenBrackets
  THEN LET b == RefItems(s, i + 1) IN
         IF b.k # "ok" THEN b
         ELSE IF s[b.next] = Closer(s[i]) THEN RefOk(b.tree, b.next + 1)
         ELSE RefBad
  ELSE IF s[i] \in NumberStart \cup Whitespace \cup CloseBrackets THEN RefBad
  ELSE IF s[i] = "\"" THEN RefStringBody(s, i + 1, <<>>)
  ELSE RefOk(Symbol(RefToken(s, i)), i + Len(RefToken(s, i)))

\* the items up to the close bracket at s[next]
RefItems(s, i) ==
  LET j == RefSkip(s, i) IN
    IF j > Len(s) THEN RefEof
    ELSE IF s[j] \in CloseBrackets THEN RefOk(Nil, j)
    ELSE LET h == RefSexp(s, j) IN
           IF h.k # "ok" THEN h
           ELSE LET t == RefItems(s, h.next) IN
                  IF t.k # "ok" THEN t ELSE RefOk(Cons(h.tree, t.tree), t.next)

Returned(fn) == ret.fn = fn
StartChar == CharAt(input, ret.start + 1)
Reader == {"eat_white_space", "read_sexp", "read_list", "read_list_items",
           "read_symbol", "read_escaped_string_char", "read_string", "read_number"}

\* a failure is handed to the caller unchanged
Propagates(e) ==
  (~Idle /\ ret.fn \in Reader /\ ret.res = Err(e)) => ret'.res = Err(e)

-----------------------------------------------------------------------------
(* The claims                                                              *)

\* C1: read_sexp on a well-formed bracketed list returns the Cons/Nil chain
\* of the trees of the list's top-level items, in order
C1_ListChain ==
  (Returned("read_sexp") /\ StartChar \in OpenBrackets
     /\ RefSexp(input, ret.start + 1).k = "ok")
  => ret.res = Ok(RefSexp(input, ret.start + 1).tree)

\* C2: after read_sexp has read a list that is the whole input, the position
\* is the end of the input, past the closing bracket; line 1, column 3 after
\* the two-line input "(a\n b)"
C2_PositionPastList ==
  (Idle /\ Returned("read_sexp") /\ ret.start = 0 /\ IsOk(ret.res)
     /\ StartChar \in OpenBrackets
     /\ RefSexp(input, 1) = RefOk(ret.res[2], Len(input) + 1))
  => /\ consumed(self) = Len(input)
     /\ self.loc = LocAt(input, Len(input))
     /\ (input = <<"(", "a", "\n", " ", "b", ")">> => self.loc = FileLocation(1, 3))

\* C3: line is the number of newlines consumed and col the number of
\* characters consumed since the last one; peek changes nothing of the
\* parser; next at end of input returns nothing and leaves the position
C3_LocTracksConsumed ==
  /\ [](self.loc = LocAt(input, consumed(self)))
  /\ [][ret'.fn = "peek" => self' = self /\ ret'.res[1] = (IF self.next_char = None THEN "None" ELSE "Some")]_vars
  /\ [][(self.next_char = None /\ ret'.fn = "next")
          => (ret'.res = NoValue /\ self'.loc = self.loc /\ self'.next_char = None)]_vars

C3_Witness ==
  /\ Returned("next") /\ ret.res = Some("a")
  /\ self.loc = FileLocation(1, 1)

C5_TruncatedIsEarlyEOF ==
  (Idle /\ Returned("read_sexp") /\ RefSexp(input, ret.start + 1).k = "eof")
  => /\ ret.res[1] = "Err"
     /\ ret.res[2][1] = "EarlyEOF"
     /\ ret.res[2][2] = LocAt(input, Len(input))

\* C6: read_string on a closed quoted string returns the decoded characters
\* between the quotes (backslash n, t, r give newline, tab, carriage return,
\* backslash and any other character gives that character), ends at the
\* first quote that no backslash escapes, and consumes that quote
C6_StringDecoded ==
  (Returned("read_string") /\ StartChar = "\""
     /\ RefStringBody(input, ret.start + 2, <<>>).k = "ok")
  => /\ ret.res = Ok(RefStringBody(input, ret.start + 2, <<>>).tree)
     /\ consumed(self) = RefStringBody(input, ret.start + 2, <<>>).next - 1
     /\ input[consumed(self)] = "\""

C6_Witness ==
  /\ Returned("read_string")
  /\ ret.res = Ok(String(<<"a", "\n", "b">>))
  /\ input = <<"\"", "a", "\\", "n", "b", "\"">>

\* C7: read_symbol succeeds with the longest prefix of the remaining input
\* that holds no delimiter, consumes exactly that prefix and leaves the
\* lookahead at the delimiter or the end of input; read_sexp on a close
\* bracket gives the empty symbol and consumes nothing
C7_SymbolToken ==
  /\ Returned("read_symbol")
       => /\ ret.res = Ok(Symbol(RefToken(input, ret.start + 1)))
          /\ consumed(self) = ret.start + Len(RefToken(input, ret.start + 1))
          /\ self.next_char = CharAt(input, consumed(self) + 1)
          /\ self.next_char \in Delimiters \cup {None}
  /\ (Returned("read_sexp") /\ StartChar \in CloseBrackets)
       => /\ ret.res = Ok(Symbol(<<>>))
          /\ consumed(self) = ret.start
          /\ self.next_char = StartChar

C7_Witness ==
  /\ Idle /\ Returned("read_sexp")
  /\ input = <<"f", "o", "o", ")">>
  /\ ret.res = Ok(Symbol(<<"f", "o", "o">>))
  /\ self.next_char = ")"

\* C8: read_sexp on a lookahead of '-' or a digit fails with NotImplemented
\* and consumes nothing, and that failure is handed up unchanged through
\* every enclosing list to the caller of read_sexp
C8_NumberNotImplemented ==
  /\ []((Returned("read_sexp") /\ StartChar \in NumberStart)
          => (ret.res = Err(<<"NotImplemented">>) /\ consumed(self) = ret.start))
  /\ []((Returned("read_number"))
          => (ret.res = Err(<<"NotImplemented">>) /\ consumed(self) = ret.start))
  /\ [][Propagates(<<"NotImplemented">>)]_vars

C8_Witness ==
  /\ Idle /\ Returned("read_sexp") /\ ret.start = 0
  /\ Len(input) >= 3 /\ input[1] = "("
  /\ ret.res = Err(<<"NotImplemented">>)
  /\ consumed(self) >= 2

\* C9: read_list_items returns Nil with the close bracket still in the
\* lookahead, and a read_list that succeeds leaves the close bracket that
\* matches its open bracket in the lookahead, unconsumed
C9_CloseBracketLeft ==
  /\ (Returned("read_list_items") /\ ret.res = Ok(Nil))
       => /\ self.next_char \in CloseBrackets
          /\ self.next_char = CharAt(input, consumed(self) + 1)
  /\ (Returned("read_list") /\ IsOk(ret.res))
       => /\ StartChar \in OpenBrackets
          /\ self.next_char = Closer(StartChar)
          /\ self.next_char = CharAt(input, consumed(self) + 1)
          /\ consumed(self) > ret.start

C9_Witness ==
  /\ Idle /\ Returned("read_sexp") /\ ret.start = 0
  /\ input = <<"(", "a", "\n", " ", "b", ")">>
  /\ ret.res = Ok(Cons(Symbol(<<"a">>), Cons(Symbol(<<"b">>), Nil)))
  /\ self.next_char = ")" /\ consumed(self) = 5

\* C10: a read_sexp that read_list_items calls for a head item and that
\* succeeds has consumed at least one character, and every call of
\* read_sexp returns
C10_Terminates ==
  /\ []((At("read_list_items", "head") /\ Returned("read_sexp") /\ IsOk(ret.res))
          => consumed(self) > ret.start)
  /\ (~Idle ~> Idle)

C10_Witness ==
  /\ Idle /\ Returned("read_sexp") /\ IsOk(ret.res)
  /\ ret.res[2][1] = "Cons" /\ ret.res[2][3][1] = "Cons"

====
